---- MODULE Spec2Model ----
(***************************************************************************)
(* Model of neuralprophet/wrapper.py: the Prophet compatibility wrapper    *)
(* around the NeuralProphet forecaster.                                    *)
(*                                                                         *)
(* A pandas table is a record [cols, rows]; a time-indexed frame is a      *)
(* record [cols, ds, ev] (columns, the dates of its rows, and the set of   *)
(* <<event, date>> pairs whose indicator is set).  Python's None is the    *)
(* record None.  Dates are day numbers.  A column name of the prediction   *)
(* table is a sequence of fragments; the fragment "event_" is the only     *)
(* place where the text "event_" occurs in a name.                         *)
(***************************************************************************)
EXTENDS Integers, Sequences, FiniteSets

VARIABLES phase, args, self, log, call

vars == <<phase, args, self, log, call>>

None == [none |-> TRUE]

(***************************************************************************)
(* Bounds of the explored inputs.                                          *)
(***************************************************************************)
MaxRows == 2
MaxPeriods == 2
MaxCols == 2
MaxHistory == 3

(***************************************************************************)
(* Input domains.                                                          *)
(***************************************************************************)
HolidayNames == {"Diwali", "NewYear"}
HolidayDates == {2, 4}
LowerWindows == {-2, -1, 0}
UpperWindows == {0, 1}
HolidayCols == {"holiday", "ds", "lower_window", "upper_window"}

HolidayRows ==
  [holiday : HolidayNames, ds : HolidayDates,
   lower_window : LowerWindows, upper_window : UpperWindows]

\* the rows of a table with columns C: a cell of an absent column is fixed
RowsOf(C) ==
  {r \in HolidayRows :
     /\ ("holiday" \notin C => r.holiday = "Diwali")
     /\ ("ds" \notin C => r.ds = 2)
     /\ ("lower_window" \notin C => r.lower_window = 0)
     /\ ("upper_window" \notin C => r.upper_window = 0)}

SeqsUpTo(S, n) == UNION {[1..k -> S] : k \in 1..n}

HolidayTables ==
  UNION {{[cols |-> C, rows |-> rs] : rs \in SeqsUpTo(RowsOf(C), MaxRows)} :
           C \in SUBSET HolidayCols}

\* an optional constructor argument: omitted (None) or given with a value
Omitted == [given |-> FALSE, val |-> 0]
Given(v) == [given |-> TRUE, val |-> v]
OptValues == {Omitted, Given(0), Given(10)}

DefaultArgs ==
  [growth |-> "linear", n_changepoints |-> 25, changepoint_range |-> 80,
   seasonality_mode |-> "additive", interval_width |-> 80,
   holidays |-> None,
   seasonality_prior_scale |-> Omitted, holidays_prior_scale |-> Omitted,
   changepoint_prior_scale |-> Omitted, mcmc_samples |-> Omitted,
   uncertainty_samples |-> Omitted, stan_backend |-> Omitted]

AdvisoryParams ==
  {"seasonality_prior_scale", "holidays_prior_scale", "changepoint_prior_scale",
   "mcmc_samples", "uncertainty_samples", "stan_backend"}

\* constructor calls that vary the holiday table
HolidayArgs == {[DefaultArgs EXCEPT !.holidays = h] : h \in HolidayTables}

\* constructor calls that vary the parameters without an engine equivalent
AdvisoryArgs ==
  {[DefaultArgs EXCEPT !.seasonality_mode = sm,
                       !.seasonality_prior_scale = a, !.holidays_prior_scale = b,
                       !.changepoint_prior_scale = c, !.mcmc_samples = d,
                       !.uncertainty_samples = e, !.stan_backend = f] :
     sm \in {"additive", "multiplicative"},
     a \in OptValues, b \in OptValues, c \in OptValues,
     d \in OptValues, e \in OptValues, f \in OptValues}

CtorArgs == HolidayArgs \cup AdvisoryArgs

(***************************************************************************)
(* Prophet.__init__                                                        *)
(***************************************************************************)
\* Python truthiness of an optional argument: None and 0 are false
Truthy(v) == v.given /\ v.val # 0

PriorScaleNotice == "prior_scale unsupported"
SamplesNotice == "samples not required"
StanNotice == "stan_backend not used"

\* lines 75-84: the advisory notices logged for a constructor call
Notices(a) ==
  (IF Truthy(a.seasonality_prior_scale) \/ Truthy(a.holidays_prior_scale)
        \/ Truthy(a.changepoint_prior_scale)
   THEN {PriorScaleNotice} ELSE {})
  \cup (IF Truthy(a.mcmc_samples) \/ Truthy(a.uncertainty_samples)
        THEN {SamplesNotice} ELSE {})
  \cup (IF Truthy(a.stan_backend) THEN {StanNotice} ELSE {})

\* lines 86-97: the keyword arguments forwarded to NeuralProphet.__init__
EngineConfig(a) ==
  [growth |-> a.growth, n_changepoints |-> a.n_changepoints,
   changepoints_range |-> a.changepoint_range,
   seasonality_mode |-> a.seasonality_mode,
   prediction_interval |-> a.interval_width]

SetMax(S) == CHOOSE x \in S : \A y \in S : y <= x

Column(t, c) == {t.rows[i][c] : i \in 1..Len(t.rows)}

\* pandas Series.unique(): the distinct values in order of first appearance
RECURSIVE Unique(_)
Unique(s) ==
  IF s = <<>> THEN <<>>
  ELSE LET init == Unique(SubSeq(s, 1, Len(s) - 1))
           last == s[Len(s)]
       IN IF \E i \in 1..Len(init) : init[i] = last THEN init
          ELSE Append(init, last)

\* line 101
HolidayEvents(h) == Unique([i \in 1..Len(h.rows) |-> h.rows[i].holiday])
\* line 102
HolidayLowerWindow(h) == SetMax(Column(h, "lower_window"))
\* line 103
HolidayUpperWindow(h) == SetMax(Column(h, "upper_window"))

\* lines 105-107: copy, rename holiday -> event, drop the window columns
EventsDf(h) ==
  [cols |-> {IF c = "holiday" THEN "event" ELSE c :
               c \in h.cols \ {"lower_window", "upper_window"}},
   rows |-> [i \in 1..Len(h.rows) |->
               [event |-> h.rows[i].holiday, ds |-> h.rows[i].ds]]]

\* the columns whose lookup holidays[...] raises KeyError in lines 101-103
MissingLookup(h) == {"holiday", "lower_window", "upper_window"} \ h.cols

\* NeuralProphet.__init__: the seasonality configuration of the engine, with
\* the seasonality mode forwarded to it and no regularisation set
SeasonConfig(a) == [mode |-> a.seasonality_mode, seasonality_reg |-> Omitted]

\* the object as the constructor leaves it when no holidays are handled
BareObject(a) ==
  [name |-> "Prophet", history |-> None, engine_config |-> EngineConfig(a),
   season_config |-> SeasonConfig(a),
   has_events_df |-> FALSE, events_df |-> None, add_events |-> None]

\* Prophet.__init__: the outcome of one constructor call
ProphetInit(a) ==
  IF a.holidays = None
  THEN [err |-> "none", self |-> BareObject(a), log |-> Notices(a)]
  ELSE IF MissingLookup(a.holidays) # {}
  THEN [err |-> "KeyError", self |-> None, log |-> Notices(a)]
  ELSE [err |-> "none",
        self |-> [BareObject(a) EXCEPT
                    !.has_events_df = TRUE,
                    !.events_df = EventsDf(a.holidays),
                    !.add_events =
                       [events |-> HolidayEvents(a.holidays),
                        lower_window |-> HolidayLowerWindow(a.holidays),
                        upper_window |-> HolidayUpperWindow(a.holidays)]],
        log |-> Notices(a)]

NoCall == [op |-> "none"]

InitNew ==
  /\ phase = "new"
  /\ args = None
  /\ self = None
  /\ log = {}
  /\ call = NoCall

Construct ==
  /\ phase = "new"
  /\ \E a \in CtorArgs :
       LET r == ProphetInit(a) IN
       /\ phase' = IF r.err = "none" THEN "ready" ELSE "failed"
       /\ args' = a
       /\ self' = r.self
       /\ log' = r.log
       /\ call' = [op |-> "__init__", err |-> r.err]

NextCtor == Construct

SpecCtor == InitNew /\ [][NextCtor]_vars

(***************************************************************************)
(* The NeuralProphet engine at its boundary (neuralprophet/forecaster.py). *)
(***************************************************************************)
SeqToSet(s) == {s[i] : i \in 1..Len(s)}

\* the dates covered by event n: every occurrence widened by the window
\* registered through add_events
ExpandedDates(s, events_df, n) ==
  UNION {{d \in (r.ds + s.add_events.lower_window)..(r.ds + s.add_events.upper_window) : TRUE} :
           r \in {x \in SeqToSet(events_df.rows) : x.event = n}}

\* NeuralProphet.create_df_with_events: one indicator column per known event
CreateDfWithEvents(s, df, events_df) ==
  LET names == SeqToSet(s.add_events.events) IN
  [cols |-> df.cols \cup names,
   ds |-> df.ds,
   ev |-> {p \in names \X SeqToSet(df.ds) :
             p[2] \in ExpandedDates(s, events_df, p[1])}]

\* NeuralProphet.make_future_dataframe
EngineMakeFutureDataframe(s, df, events_df, periods, n_historic_predictions) ==
  IF periods <= 0 THEN [err |-> "InvalidArgumentError", ret |-> None]
  ELSE IF df = None THEN [err |-> "PrerequisiteError", ret |-> None]
  ELSE LET last == df.ds[Len(df.ds)]
           future == [i \in 1..periods |-> last + i]
           frame == [cols |-> df.cols,
                     ds |-> IF n_historic_predictions THEN df.ds \o future ELSE future,
                     ev |-> {}]
       IN [err |-> "none",
           ret |-> IF events_df = None THEN frame
                   ELSE CreateDfWithEvents(s, frame, events_df)]

(***************************************************************************)
(* Prophet.fit                                                             *)
(***************************************************************************)
FitFrames ==
  {[cols |-> C, ds |-> [i \in 1..k |-> i], ev |-> {}] :
     C \in {{"ds", "y"}, {"ds", "y", "cap"}}, k \in 2..MaxHistory}

FitKwargs == {{}, {"show_progress"}, {"epochs"}}

\* lines 189-198: fit once the input frame has passed the cap check;
\* engine_ok: whether NeuralProphet.fit returns (TRUE) or raises (FALSE)
FitSupported(s, df, kwargs, engine_ok) ==
  LET kw == kwargs \ {"show_progress"}
      df2 == IF s.has_events_df THEN CreateDfWithEvents(s, df, s.events_df) ELSE df
      attach == IF s.has_events_df
                THEN <<[method |-> "create_df_with_events", events_df |-> s.events_df]>>
                ELSE <<>>
      calls == attach \o <<[method |-> "fit", df |-> df2, kwargs |-> kw]>>
  IN IF engine_ok
     THEN [self |-> [s EXCEPT !.history = df2], err |-> "none",
           engine |-> calls, ret |-> "metrics_df"]
     ELSE [self |-> s, err |-> "EngineError", engine |-> calls, ret |-> None]

\* fit with the cap check only after the history has been stored
fit_ChecksCapLast(s, df, kwargs, engine_ok) ==
  LET r == FitSupported(s, df, kwargs, engine_ok) IN
  IF "cap" \in df.cols
  THEN [r EXCEPT !.err = "NotImplementedError", !.ret = None]
  ELSE r

\* fit keeping only the events that fall inside the fitted history
fit_TrimsEvents(s, df, kwargs, engine_ok) ==
  IF "cap" \in df.cols
  THEN [self |-> s, err |-> "NotImplementedError", engine |-> <<>>, ret |-> None]
  ELSE LET r == FitSupported(s, df, kwargs, engine_ok) IN
       IF s.has_events_df
       THEN [r EXCEPT !.self.events_df.rows =
                        SelectSeq(s.events_df.rows,
                                  LAMBDA x : x.ds \in SeqToSet(df.ds))]
       ELSE r

fit(s, df, kwargs, engine_ok) ==
  IF "cap" \in df.cols
  THEN [self |-> s, err |-> "NotImplementedError", engine |-> <<>>, ret |-> None]
  ELSE FitSupported(s, df, kwargs, engine_ok)

Fit ==
  /\ phase = "ready"
  /\ \E df \in FitFrames, kwargs \in FitKwargs, engine_ok \in BOOLEAN :
       LET r == fit(self, df, kwargs, engine_ok) IN
       /\ self' = r.self
       /\ call' = [op |-> "fit", df |-> df, kwargs |-> kwargs, err |-> r.err,
                   engine |-> r.engine, ret |-> r.ret]
  /\ UNCHANGED <<phase, args, log>>

(***************************************************************************)
(* Prophet.make_future_dataframe                                           *)
(***************************************************************************)
Frequencies == {"D", "M", "MS"}
Periods == (0 - 1)..MaxPeriods

\* a month taken as 31 days
normalizeFrequency_Days31(freq, periods) ==
  IF freq = "M" THEN periods * 31 ELSE periods

\* a monthly request taken as one month, whatever the number of periods
normalizeFrequency_OneMonth(freq, periods) ==
  IF freq = "M" THEN 30 ELSE periods

\* lines 251-253
normalizeFrequency(freq, periods) ==
  IF freq = "M" THEN periods * 30 ELSE periods

make_future_dataframe(s, periods, freq, include_history) ==
  LET p == normalizeFrequency(freq, periods)
      events_df == IF s.has_events_df THEN s.events_df ELSE None
      r == EngineMakeFutureDataframe(s, s.history, events_df, p, include_history)
  IN [self |-> s, err |-> r.err,
      engine |-> <<[method |-> "make_future_dataframe", df |-> s.history,
                    events_df |-> events_df, periods |-> p,
                    n_historic_predictions |-> include_history]>>,
      ret |-> r.ret]

MakeFutureDataframe ==
  /\ phase = "ready"
  /\ \E periods \in Periods, freq \in Frequencies, include_history \in BOOLEAN :
       LET r == make_future_dataframe(self, periods, freq, include_history) IN
       /\ self' = r.self
       /\ call' = [op |-> "make_future_dataframe", periods |-> periods, freq |-> freq,
                   include_history |-> include_history, err |-> r.err,
                   engine |-> r.engine, ret |-> r.ret]
  /\ UNCHANGED <<phase, args, log>>

(***************************************************************************)
(* Prophet.predict                                                         *)
(***************************************************************************)
Prefix == "event_"

\* column names of the engine's prediction table, as sequences of fragments
EngineColumnNames ==
  {<<"trend">>, <<Prefix, "Diwali">>, <<Prefix, "pre_", Prefix, "day">>,
   <<"future_regressor_my_", Prefix, "x">>}

Injective(f) == \A i, j \in DOMAIN f : f[i] = f[j] => i = j

\* the prediction tables the engine may return: ordered, distinct columns;
\* val stands for the data of a column, different for every engine column
EngineTables ==
  {[i \in 1..Len(ns) |-> [name |-> ns[i], val |-> i]] :
     ns \in {x \in SeqsUpTo(EngineColumnNames, MaxCols) : Injective(x)}}

\* Python: "event_" in column
Contains(column) == \E i \in 1..Len(column) : column[i] = Prefix

\* Python: column.replace("event_", "")
Replace(column) == SelectSeq(column, LAMBDA x : x # Prefix)

\* pandas: df[name] = values, overwriting an existing column or appending one
SetColumn(df, name, val) ==
  IF \E i \in 1..Len(df) : df[i].name = name
  THEN [i \in 1..Len(df) |-> IF df[i].name = name THEN [name |-> name, val |-> val]
                              ELSE df[i]]
  ELSE Append(df, [name |-> name, val |-> val])

GetColumn(df, name) == (CHOOSE i \in 1..Len(df) : df[i].name = name)

\* lines 216-219: the loop over the columns the engine returned
RECURSIVE CopyColumns(_, _, _)
CopyColumns(df, columns, i) ==
  IF i > Len(columns) THEN df
  ELSE IF Contains(columns[i])
  THEN CopyColumns(SetColumn(df, Replace(columns[i]), df[GetColumn(df, columns[i])].val),
                   columns, i + 1)
  ELSE CopyColumns(df, columns, i + 1)

PredictFrames == {None, [cols |-> {"ds"}, ds |-> <<1, 2>>, ev |-> {}]}

\* engine_df: the table NeuralProphet.predict returns
predict(s, df, engine_df) ==
  IF df = None /\ s.history = None
  THEN [self |-> s, err |-> "AttributeError", engine |-> <<>>, ret |-> None]
  ELSE
    LET d == IF df = None THEN s.history ELSE df IN
    [self |-> s, err |-> "none",
     engine |-> <<[method |-> "predict", df |-> d, ret |-> engine_df]>>,
     ret |-> CopyColumns(engine_df, [i \in 1..Len(engine_df) |-> engine_df[i].name], 1)]

Predict ==
  /\ phase = "ready"
  /\ \E df \in PredictFrames, engine_df \in EngineTables :
       LET r == predict(self, df, engine_df) IN
       /\ self' = r.self
       /\ call' = [op |-> "predict", df |-> df, err |-> r.err,
                   engine |-> r.engine, ret |-> r.ret]
  /\ UNCHANGED <<phase, args, log>>

(***************************************************************************)
(* Prophet.add_seasonality                                                 *)
(***************************************************************************)
\* mode=None, the default of the mode parameter
NoMode == "None"
SeasonalityModes == {"additive", "multiplicative"}
ModeArgs == {NoMode} \cup SeasonalityModes
PriorScales == {Omitted, Given(10)}
ConditionNames == {Omitted, Given(1)}
SeasonalityNames == {"monthly", "quarterly"}

ConditionNotice == "conditioning unsupported"

\* lines 305-313; engine_ok: whether NeuralProphet.add_seasonality returns
\* (TRUE) or raises (FALSE)
add_seasonality(s, l, name, prior_scale, mode, condition_name, engine_ok) ==
  [self |-> [s EXCEPT !.season_config =
                        [mode |-> mode, seasonality_reg |-> prior_scale]],
   log |-> IF Truthy(condition_name) THEN l \cup {ConditionNotice} ELSE l,
   err |-> IF engine_ok THEN "none" ELSE "EngineError",
   engine |-> <<[method |-> "add_seasonality", name |-> name]>>,
   ret |-> IF engine_ok THEN "self" ELSE "None"]

AddSeasonality ==
  /\ phase = "ready"
  /\ \E name \in SeasonalityNames, prior_scale \in PriorScales, mode \in ModeArgs,
        condition_name \in ConditionNames, engine_ok \in BOOLEAN :
       LET r == add_seasonality(self, log, name, prior_scale, mode,
                                condition_name, engine_ok) IN
       /\ self' = r.self
       /\ log' = r.log
       /\ call' = [op |-> "add_seasonality", name |-> name,
                   prior_scale |-> prior_scale, mode |-> mode,
                   condition_name |-> condition_name, err |-> r.err,
                   engine |-> r.engine, ret |-> r.ret]
  /\ UNCHANGED <<phase, args>>

(***************************************************************************)
(* The life of one successfully constructed model.                         *)
(***************************************************************************)
DiwaliTable ==
  [cols |-> HolidayCols,
   rows |-> <<[holiday |-> "Diwali", ds |-> 2, lower_window |-> 0 - 1, upper_window |-> 1],
              [holiday |-> "Diwali", ds |-> 4, lower_window |-> 0 - 2, upper_window |-> 0]>>]

NewYearTable ==
  [cols |-> HolidayCols,
   rows |-> <<[holiday |-> "NewYear", ds |-> 4, lower_window |-> 0 - 1, upper_window |-> 0]>>]

LifecycleArgs ==
  {[DefaultArgs EXCEPT !.holidays = h, !.mcmc_samples = m] :
     h \in {None, DiwaliTable, NewYearTable}, m \in {Omitted, Given(10)}}

Init ==
  \E a \in LifecycleArgs :
    LET r == ProphetInit(a) IN
    /\ r.err = "none"
    /\ phase = "ready"
    /\ args = a
    /\ self = r.self
    /\ log = r.log
    /\ call = [op |-> "__init__", err |-> r.err]

Next == Fit \/ Predict \/ MakeFutureDataframe

Spec == Init /\ [][Next]_vars

(***************************************************************************)
(* A constructed model whose seasonalities are registered before and       *)
(* between fits.                                                           *)
(***************************************************************************)
SeasonArgs ==
  {[DefaultArgs EXCEPT !.seasonality_mode = sm] : sm \in SeasonalityModes}

InitSeason ==
  \E a \in SeasonArgs :
    LET r == ProphetInit(a) IN
    /\ phase = "ready"
    /\ args = a
    /\ self = r.self
    /\ log = r.log
    /\ call = [op |-> "__init__", err |-> r.err]

NextSeason == AddSeasonality \/ Fit

SpecSeason == InitSeason /\ [][NextSeason]_vars

(***************************************************************************)
(* Properties of the constructor (checked under SpecCtor).                 *)
(***************************************************************************)
SetMin(S) == CHOOSE x \in S : \A y \in S : x <= y

RowsNamed(h, n) == {r \in SeqToSet(h.rows) : r.holiday = n}

\* C1: every holiday name of the table is registered with the widest window
\* observed for that name: the minimum lower_window and the maximum
\* upper_window over the rows of that name, and of no other name.
C1_WidestWindowPerName ==
  (phase = "ready" /\ args.holidays # None) =>
    \A n \in SeqToSet(self.add_events.events) :
      /\ self.add_events.lower_window =
           SetMin({r.lower_window : r \in RowsNamed(args.holidays, n)})
      /\ self.add_events.upper_window =
           SetMax({r.upper_window : r \in RowsNamed(args.holidays, n)})

WithoutAdvisory(a) ==
  [a EXCEPT !.seasonality_prior_scale = Omitted, !.holidays_prior_scale = Omitted,
            !.changepoint_prior_scale = Omitted, !.mcmc_samples = Omitted,
            !.uncertainty_samples = Omitted, !.stan_backend = Omitted]

\* C4: a constructor call that supplies any of the six parameters without an
\* engine equivalent does not raise, logs the notice of every parameter group
\* with a supplied parameter, and forwards the configuration it would forward
\* with those parameters omitted.
C4_AdvisoryParamsNoticedAndDropped ==
  (phase # "new" /\ args.holidays = None) =>
    /\ call.err = "none"
    /\ (args.seasonality_prior_scale.given \/ args.holidays_prior_scale.given
          \/ args.changepoint_prior_scale.given) => PriorScaleNotice \in log
    /\ (args.mcmc_samples.given \/ args.uncertainty_samples.given)
          => SamplesNotice \in log
    /\ args.stan_backend.given => StanNotice \in log
    /\ self.engine_config = EngineConfig(WithoutAdvisory(args))

\* C7: a holiday table with the name and date columns but without a window
\* column is accepted, and the absent window bound is registered as 0.
C7_AbsentWindowDefaultsToZero ==
  (/\ phase # "new"
   /\ args.holidays # None
   /\ {"holiday", "ds"} \subseteq args.holidays.cols
   /\ ~({"lower_window", "upper_window"} \subseteq args.holidays.cols)) =>
    /\ call.err = "none"
    /\ phase = "ready"
    /\ "lower_window" \notin args.holidays.cols => self.add_events.lower_window = 0
    /\ "upper_window" \notin args.holidays.cols => self.add_events.upper_window = 0

\* C8: a holiday table without the name column or without the date column
\* makes the constructor fail, so no model is created from it (any raised
\* error is taken as the configuration error).
C8_MissingRequiredColumnRejected ==
  (/\ phase # "new"
   /\ args.holidays # None
   /\ ~({"holiday", "ds"} \subseteq args.holidays.cols)) =>
    /\ call.err # "none"
    /\ phase = "failed"

(***************************************************************************)
(* Properties of fit, predict and make_future_dataframe (under Spec).      *)
(***************************************************************************)
IsMakeFuture == call.op = "make_future_dataframe"

\* C2: make_future_dataframe asks the engine for 30 * periods steps when
\* freq is "M" and for periods steps otherwise; the frame it returns has
\* that many future rows, all after the last date of the history, preceded
\* by the history rows exactly when include_history is set.
C2_MonthIsThirtySteps ==
  IsMakeFuture =>
    LET want == IF call.freq = "M" THEN 30 * call.periods ELSE call.periods
        hist == IF call.include_history THEN Len(self.history.ds) ELSE 0
    IN /\ call.engine[1].periods = want
       /\ call.err = "none" =>
            /\ Len(call.ret.ds) = hist + want
            /\ \A i \in (hist + 1)..(hist + want) :
                 call.ret.ds[i] = self.history.ds[Len(self.history.ds)] + (i - hist)

C2_Witness ==
  /\ IsMakeFuture
  /\ call.periods = 1 /\ call.freq = "M" /\ ~call.include_history
  /\ call.err = "none"
  /\ Len(call.ret.ds) = 30

\* C3: a fit call whose input frame has a cap column fails with the
\* unsupported-feature error (NotImplementedError) without any call to the
\* engine, and leaves the model (history and event table) as it was.
C3_CapRejectedWithoutEffect ==
  [][(call'.op = "fit" /\ "cap" \in call'.df.cols) =>
       /\ call'.err = "NotImplementedError"
       /\ call'.engine = <<>>
       /\ self' = self]_vars

C3_Witness ==
  /\ call.op = "fit" /\ "cap" \in call.df.cols
  /\ call.err = "NotImplementedError"
  /\ self.history # None

C6_NoHistoryFailsInWrapper ==
  (/\ self.history = None
   /\ (call.op = "predict" /\ call.df = None) \/ IsMakeFuture) =>
    /\ call.err # "none"
    /\ call.engine = <<>>

ColumnNames(t) == {t[i].name : i \in 1..Len(t)}
ValueOf(t, c) == t[GetColumn(t, c)].val
HasPrefix(c) == c[1] = Prefix

\* C9: the table predict returns holds every engine column with its values,
\* for every engine column whose name begins with the prefix a column named
\* by the rest of that name with the same values, and no other column.
C9_PredictIsRenamedView ==
  (call.op = "predict" /\ call.err = "none") =>
    LET eng == call.engine[1].ret
        res == call.ret
        prefixed == {c \in ColumnNames(eng) : HasPrefix(c)}
    IN /\ ColumnNames(res) = ColumnNames(eng) \cup {Tail(c) : c \in prefixed}
       /\ \A c \in ColumnNames(eng) : ValueOf(res, c) = ValueOf(eng, c)
       /\ \A c \in prefixed : ValueOf(res, Tail(c)) = ValueOf(eng, c)

EventCalls(engine) ==
  {i \in 1..Len(engine) :
     engine[i].method \in {"create_df_with_events", "make_future_dataframe"}}

\* C10: the event table stored by the constructor stays the stored one through
\* every fit, predict and make_future_dataframe, and it is the table handed
\* to the engine by every fit and every make_future_dataframe.
C10_EventTableImmutable ==
  args.holidays # None =>
    /\ self.has_events_df
    /\ self.events_df = EventsDf(args.holidays)
    /\ call.op \in {"fit", "make_future_dataframe"} =>
         \A i \in EventCalls(call.engine) :
           call.engine[i].events_df = EventsDf(args.holidays)

C10_Witness ==
  /\ IsMakeFuture /\ call.err = "none"
  /\ args.holidays # None
  /\ self.history # None
  /\ call.engine[1].events_df = self.events_df

(***************************************************************************)
(* Properties of add_seasonality (checked under SpecSeason).               *)
(***************************************************************************)
\* C11: an add_seasonality call that passes no mode leaves the seasonality
\* mode of the model as it was, so after any sequence of such calls the mode
\* in effect is the seasonality_mode given at construction.
C11_NoModeKeepsSeasonalityMode ==
  [][(call'.op = "add_seasonality" /\ call'.mode = NoMode) =>
       self'.season_config.mode = self.season_config.mode]_vars

====
